---- MODULE Spec2Model ----
\* Model of RedBlackTree (src/RedBlackTree.cpp): an order-statistics red/black
\* tree with insert, contains, rankOf and select. Nodes are identified by their
\* key (keys are distinct in the tree), Nil stands for nullptr.
EXTENDS Integers, FiniteSets, Sequences, TLC

MaxKey == 8
SizeCap == 9
Keys == 1 .. MaxKey
Nil == 0

VARIABLES t, crashed, nullRead, rotRoot, gpNull, inserted, lastKey, lastRet,
          pre, rotated, moved

vars == <<t, crashed, nullRead, rotRoot, gpNull, inserted, lastKey, lastRet,
          pre, rotated, moved>>

\* The empty tree: root == nullptr, no node linked.
EmptyTree == [root |-> Nil,
              left |-> [n \in Keys |-> Nil],
              right |-> [n \in Keys |-> Nil],
              parent |-> [n \in Keys |-> Nil],
              color |-> [n \in Keys |-> "BLACK"],
              size |-> [n \in Keys |-> 0]]

RECURSIVE Sub(_, _)
Sub(T, n) == IF n = Nil THEN {}
             ELSE {n} \cup Sub(T, T.left[n]) \cup Sub(T, T.right[n])

Nodes(T) == Sub(T, T.root)

\* contains descending to the wrong side.
RECURSIVE ContainsLoopFlipped(_, _, _)
ContainsLoopFlipped(T, curr, key) ==
  IF curr = Nil THEN FALSE
  ELSE IF key = curr THEN TRUE
  ELSE IF key < curr THEN ContainsLoopFlipped(T, T.right[curr], key)
  ELSE ContainsLoopFlipped(T, T.left[curr], key)

\* RedBlackTree::contains
RECURSIVE ContainsLoop(_, _, _)
ContainsLoop(T, curr, key) ==
  IF curr = Nil THEN FALSE
  ELSE IF key = curr THEN TRUE
  ELSE IF key < curr THEN ContainsLoop(T, T.left[curr], key)
  ELSE ContainsLoop(T, T.right[curr], key)

Contains(T, key) == ContainsLoop(T, T.root, key)

\* RedBlackTree::insertKey, step one: descent from curr, incrementing the size
\* of every visited node (line 74) before comparing keys.
RECURSIVE InsertDescend(_, _, _, _)
RECURSIVE InsertVisit(_, _, _)
InsertDescend(T, prev, curr, key) ==
  IF curr = Nil THEN [t |-> T, dup |-> FALSE, prev |-> prev]
  ELSE InsertVisit([T EXCEPT !.size[curr] = @ + 1], curr, key)

InsertVisit(T, curr, key) ==
  IF key = curr THEN [t |-> T, dup |-> TRUE, prev |-> curr]
  ELSE IF key < curr THEN InsertDescend(T, curr, T.left[curr], key)
  ELSE InsertDescend(T, curr, T.right[curr], key)

\* RedBlackTree::insertKey, step three: wire the new node under p (or as root).
InsertWire(T, p, key) ==
  IF p = Nil THEN [T EXCEPT !.root = key]
  ELSE IF key < p THEN [T EXCEPT !.left[p] = key]
  ELSE [T EXCEPT !.right[p] = key]

\* RedBlackTree::insertKey, step two: a new BLACK node of size 1, parent p.
InsertNew(d, key) ==
  IF d.dup THEN [t |-> d.t, node |-> Nil]
  ELSE [t |-> InsertWire([d.t EXCEPT !.color[key] = "BLACK", !.left[key] = Nil,
                                     !.right[key] = Nil, !.parent[key] = d.prev,
                                     !.size[key] = 1], d.prev, key),
        node |-> key]

\* RedBlackTree::insertKey: returns the new node, or Nil for a duplicate.
InsertKey(T, key) == InsertNew(InsertDescend(T, Nil, T.root, key), key)

\* RedBlackTree::siblingOf
SiblingOf(T, n) ==
  IF T.parent[n] = Nil THEN Nil
  ELSE IF n = T.left[T.parent[n]] THEN T.right[T.parent[n]]
  ELSE T.left[T.parent[n]]

\* rotateWithParent, line 314: node->size = node->left->size +
\* node->right->size + 1. When a child is nullptr the read faults (SIGSEGV):
\* tpre is the tree the process dies with. mv records that line 307 relinked
\* a non-null subtree.
RotFinish(T, n, mv) ==
  [t |-> IF T.left[n] = Nil \/ T.right[n] = Nil THEN T
         ELSE [T EXCEPT !.size[n] = T.size[T.left[n]] + T.size[T.right[n]] + 1],
   tpre |-> T,
   nr |-> (T.left[n] = Nil \/ T.right[n] = Nil),
   thrown |-> FALSE,
   mv |-> mv]

\* rotateWithParent, lines 309-313: relink n and its old parent p, then
\* oldParent->size = node->size.
RotRelink(T, n, p, mv) ==
  RotFinish([T EXCEPT !.parent[n] = T.parent[p], !.parent[p] = n,
                      !.size[p] = T.size[n]], n, mv)

\* rotateWithParent, line 307: the swapped child gets parent p.
RotChildParent(T, n, p, child) ==
  RotRelink(IF child # Nil THEN [T EXCEPT !.parent[child] = p] ELSE T, n, p,
            child # Nil)

\* rotateWithParent, lines 289-296: the grandparent (or root) points at n.
RotGrand(T, n, p, child) ==
  RotChildParent(IF T.parent[p] = Nil THEN [T EXCEPT !.root = n]
                 ELSE IF T.left[T.parent[p]] = p
                 THEN [T EXCEPT !.left[T.parent[p]] = n]
                 ELSE [T EXCEPT !.right[T.parent[p]] = n],
                 n, p, child)

\* rotateWithParent, lines 275-286: the local rotation of n with its parent p.
RotLocal(T, n, p) ==
  IF n = T.left[p]
  THEN RotGrand([T EXCEPT !.right[n] = p, !.left[p] = T.right[n]],
                n, p, T.right[n])
  ELSE RotGrand([T EXCEPT !.left[n] = p, !.right[p] = T.left[n]],
                n, p, T.left[n])

\* RedBlackTree::rotateWithParent; a root argument throws runtime_error.
RotateWithParent(T, n) ==
  IF T.parent[n] = Nil
  THEN [t |-> T, tpre |-> T, nr |-> FALSE, thrown |-> TRUE, mv |-> FALSE]
  ELSE RotLocal(T, n, T.parent[n])

\* Outcome of fixupFrom: the tree it leaves, whether the process died, whether
\* a nullptr->size read happened, whether rotateWithParent threw, whether the
\* grandparent pointer of line 194 was nullptr, whether a rotation completed
\* and whether one relinked a non-null subtree.
Stop(T, cr, nr, th) == [t |-> T, crashed |-> cr, nr |-> nr, thrown |-> th,
                        gpnull |-> FALSE, rot |-> FALSE, mv |-> FALSE]

Rotated(T, mv) == [t |-> T, crashed |-> FALSE, nr |-> FALSE, thrown |-> FALSE,
                   gpnull |-> FALSE, rot |-> TRUE, mv |-> mv]

\* fixupFrom, zig-zag, after both rotations: grandparent->color = RED.
ZigZag2(R1, R2, gp) ==
  IF R2.thrown THEN Stop(R1.t, TRUE, FALSE, TRUE)
  ELSE IF R2.nr THEN Stop(R2.tpre, TRUE, TRUE, FALSE)
  ELSE Rotated([R2.t EXCEPT !.color[gp] = "RED"], R1.mv \/ R2.mv)

\* fixupFrom, zig-zag, after the first rotateWithParent(node).
ZigZag1(R1, n, gp) ==
  IF R1.thrown THEN Stop(R1.t, TRUE, FALSE, TRUE)
  ELSE IF R1.nr THEN Stop(R1.tpre, TRUE, TRUE, FALSE)
  ELSE ZigZag2(R1, RotateWithParent(R1.t, n), gp)

\* fixupFrom, zig-zig, after rotateWithParent(parent): recolor.
ZigZig1(R, n, p, gp) ==
  IF R.thrown THEN Stop(R.t, TRUE, FALSE, TRUE)
  ELSE IF R.nr THEN Stop(R.tpre, TRUE, TRUE, FALSE)
  ELSE Rotated([R.t EXCEPT !.color[p] = "BLACK", !.color[n] = "RED",
                           !.color[gp] = "RED"], R.mv)

\* fixupFrom, one iteration with node n, parent p, grandparent gp, sibling s
\* and aunt a.
RECURSIVE FixupFrom(_, _)
FixupCases(T, n, p, gp, s, a) ==
  IF T.color[p] = "BLACK" /\ (s = Nil \/ T.color[s] = "BLACK")
  THEN Stop([T EXCEPT !.color[n] = "RED"], FALSE, FALSE, FALSE)
  ELSE IF T.color[p] = "BLACK" /\ s # Nil /\ T.color[s] = "RED"
  THEN Stop([T EXCEPT !.color[n] = "RED"], FALSE, FALSE, FALSE)
  ELSE IF T.color[p] = "RED" /\ (a = Nil \/ T.color[a] = "BLACK")
  THEN
    IF gp = Nil
    THEN [t |-> T, crashed |-> TRUE, nr |-> FALSE, thrown |-> FALSE,
          gpnull |-> TRUE, rot |-> FALSE, mv |-> FALSE]
    ELSE IF (n = T.left[p]) # (p = T.left[gp])
    THEN ZigZag1(RotateWithParent(T, n), n, gp)
    ELSE ZigZig1(RotateWithParent(T, p), n, p, gp)
  ELSE
    FixupFrom([T EXCEPT !.color[p] = "BLACK", !.color[a] = "BLACK",
                        !.color[n] = "RED"], gp)

\* RedBlackTree::fixupFrom
FixupFrom(T, n) ==
  IF T.parent[n] = Nil THEN Stop(T, FALSE, FALSE, FALSE)
  ELSE FixupCases(T, n, T.parent[n], T.parent[T.parent[n]],
                  SiblingOf(T, n), SiblingOf(T, T.parent[n]))

\* RedBlackTree::insert, after fixupFrom(node) with outcome f.
InsertFixed(f) ==
  /\ t' = f.t
  /\ crashed' = f.crashed
  /\ nullRead' = (nullRead \/ f.nr)
  /\ rotRoot' = (rotRoot \/ f.thrown)
  /\ gpNull' = (gpNull \/ f.gpnull)
  /\ rotated' = (rotated \/ f.rot)
  /\ moved' = (moved \/ f.mv)

\* RedBlackTree::insert, after insertKey returned ik.
InsertAfterKey(ik, key) ==
  /\ inserted' = inserted \cup {key}
  /\ lastRet' = (ik.node # Nil)
  /\ IF ik.node = Nil
     THEN /\ t' = ik.t
          /\ UNCHANGED <<crashed, nullRead, rotRoot, gpNull, rotated, moved>>
     ELSE InsertFixed(FixupFrom(ik.t, ik.node))

\* RedBlackTree::insert: insertKey followed by fixupFrom on a new node.
Insert ==
  /\ ~crashed
  /\ \A n \in Keys : t.size[n] < SizeCap
  /\ \E key \in Keys : InsertAfterKey(InsertKey(t, key), key)
  /\ UNCHANGED <<pre, lastKey>>

\* RedBlackTree(): the empty tree.
Init ==
  /\ t = EmptyTree
  /\ crashed = FALSE
  /\ nullRead = FALSE
  /\ rotRoot = FALSE
  /\ gpNull = FALSE
  /\ inserted = {}
  /\ lastKey = Nil
  /\ lastRet = FALSE
  /\ pre = EmptyTree
  /\ rotated = FALSE
  /\ moved = FALSE

Next == Insert

Spec == Init /\ [][Next]_vars

\* ---- Structural properties of a tree ----

SZ(T, x) == IF x = Nil THEN 0 ELSE T.size[x]

BSTOrdered(T) ==
  \A n \in Nodes(T) : /\ \A x \in Sub(T, T.left[n]) : x < n
                      /\ \A x \in Sub(T, T.right[n]) : x > n

RootBlack(T) == T.root = Nil \/ T.color[T.root] = "BLACK"

NoRedRed(T) ==
  \A n \in Nodes(T) : T.color[n] = "RED" =>
     /\ (T.left[n] = Nil \/ T.color[T.left[n]] = "BLACK")
     /\ (T.right[n] = Nil \/ T.color[T.right[n]] = "BLACK")

\* Black height of a subtree, -1 when two paths disagree.
RECURSIVE BH(_, _)
BH(T, n) == IF n = Nil THEN 0
            ELSE LET l == BH(T, T.left[n])
                     r == BH(T, T.right[n])
                 IN IF l < 0 \/ r < 0 \/ l # r THEN -1
                    ELSE l + (IF T.color[n] = "BLACK" THEN 1 ELSE 0)

BlackBalanced(T) == BH(T, T.root) >= 0

ParentLinks(T) ==
  /\ (T.root # Nil => T.parent[T.root] = Nil)
  /\ \A n \in Nodes(T) :
       /\ (T.left[n] # Nil => T.parent[T.left[n]] = n)
       /\ (T.right[n] # Nil => T.parent[T.right[n]] = n)

SizeInv(T) ==
  \A n \in Nodes(T) : T.size[n] = 1 + SZ(T, T.left[n]) + SZ(T, T.right[n])

RBInv(T) == BSTOrdered(T) /\ RootBlack(T) /\ NoRedRed(T) /\ BlackBalanced(T)
            /\ ParentLinks(T)

\* ---- Queries ----

\* A query's result: a value, or a nullptr dereference ("segv").
Val(v) == [kind |-> "value", val |-> v]
Segv == [kind |-> "segv", val |-> 0]

\* RedBlackTree::rankOf, the descent loop of lines 354-378. The loop stops at
\* the node holding key without adding that node's left subtree.
RECURSIVE RankLoop(_, _, _, _)
RankLoop(T, current, key, rank) ==
  IF current = Nil \/ current = key THEN rank
  ELSE IF key > current
  THEN RankLoop(T, T.right[current], key,
                rank + (IF T.left[current] # Nil
                        THEN T.size[T.left[current]] ELSE 0) + 1)
  ELSE RankLoop(T, T.left[current], key, rank)

\* RedBlackTree::rankOf: line 349 dereferences root even when it is nullptr.
RankOf(T, key) ==
  IF T.root = Nil THEN Segv
  ELSE Val(RankLoop(T, T.root, key,
                    IF T.root = key /\ T.left[T.root] # Nil
                    THEN T.size[T.left[T.root]] ELSE 0))

\* RedBlackTree::select, the loop of lines 401-421 and the read of line 425.
RECURSIVE SelectLoop(_, _, _, _)
SelectLoop(T, current, rank, currentRank) ==
  IF current = Nil THEN Segv
  ELSE IF rank > currentRank
  THEN LET nx == T.right[current] IN
       IF nx = Nil THEN Segv
       ELSE SelectLoop(T, nx, rank,
                       IF T.left[nx] # Nil
                       THEN currentRank + T.size[T.left[nx]] + 1
                       ELSE currentRank)
  ELSE IF rank < currentRank
  THEN IF T.left[current] = Nil THEN Segv
       ELSE SelectLoop(T, T.left[current], rank, T.size[T.left[current]])
  ELSE Val(current)

\* RedBlackTree::select
Select(T, rank) ==
  SelectLoop(T, T.root, rank,
             IF T.root # Nil /\ T.left[T.root] # Nil
             THEN T.size[T.left[T.root]] ELSE 0)

\* Number of keys of the tree smaller than k.
Less(T, k) == Cardinality({j \in Nodes(T) : j < k})

QueryKeys == 1 .. MaxKey + 1
QueryRanks == 0 .. MaxKey + 1

\* ---- Rotation on its own: any BST with correct sizes and parent links ----

Join(rt, L, R) ==
  [root |-> rt,
   left |-> [n \in Keys |-> IF n < rt THEN L.left[n]
                            ELSE IF n > rt THEN R.left[n] ELSE L.root],
   right |-> [n \in Keys |-> IF n < rt THEN L.right[n]
                             ELSE IF n > rt THEN R.right[n] ELSE R.root],
   parent |-> [n \in Keys |-> IF n = rt THEN Nil
                              ELSE IF n = L.root \/ n = R.root THEN rt
                              ELSE IF n < rt THEN L.parent[n] ELSE R.parent[n]],
   color |-> [n \in Keys |-> "BLACK"],
   size |-> [n \in Keys |-> IF n = rt THEN 1 + SZ(L, L.root) + SZ(R, R.root)
                            ELSE IF n < rt THEN L.size[n] ELSE R.size[n]]]

\* All binary search trees over the key set S, sizes and parents consistent.
RECURSIVE BSTs(_)
BSTs(S) == IF S = {} THEN {EmptyTree}
           ELSE UNION { { Join(rt, L, R) : L \in BSTs({x \in S : x < rt}),
                                           R \in BSTs({x \in S : x > rt}) }
                        : rt \in S }

RotInit ==
  /\ t \in UNION { BSTs(S) : S \in SUBSET Keys }
  /\ pre = t
  /\ crashed = FALSE
  /\ nullRead = FALSE
  /\ rotRoot = FALSE
  /\ gpNull = FALSE
  /\ inserted = Nodes(t)
  /\ lastKey = Nil
  /\ lastRet = FALSE
  /\ rotated = FALSE
  /\ moved = FALSE

\* The state after rotateWithParent(n) with outcome R.
RotApply(R, n) ==
  /\ t' = IF R.nr THEN R.tpre ELSE R.t
  /\ crashed' = R.nr
  /\ nullRead' = R.nr
  /\ rotRoot' = R.thrown
  /\ lastKey' = n
  /\ rotated' = TRUE
  /\ moved' = R.mv

\* One call rotateWithParent(n) on a non-root node n; lastKey records n.
RotStep ==
  /\ ~rotated
  /\ \E n \in Nodes(t) \ {t.root} : RotApply(RotateWithParent(t, n), n)
  /\ UNCHANGED <<gpNull, inserted, lastRet, pre>>

RotSpec == RotInit /\ [][RotStep]_vars

RECURSIVE InOrder(_, _)
InOrder(T, n) == IF n = Nil THEN << >>
                 ELSE InOrder(T, T.left[n]) \o <<n>> \o InOrder(T, T.right[n])

\* ---- Claims ----

\* C1: after every insert of any sequence from the empty tree the insert
\* returns and the tree satisfies BST order, black root, no red-red, uniform
\* black height and consistent parent links.
C1_Claim == ~crashed /\ RBInv(t)

\* C2: after every insert (duplicates and rotations included) every node's
\* size is 1 + size(left) + size(right).
C2_Claim == ~crashed => SizeInv(t)

\* C3: in every state the program reaches, contains(k) is true exactly for
\* the keys that were inserted.
C3_Contains == ~crashed => \A k \in QueryKeys : Contains(t, k) <=> k \in inserted

\* A tree after inserts whose fixup completed a rotation that moved a
\* non-null subtree to a new parent, with contains asked of every inserted key.
C3_Witness == ~crashed /\ moved /\ Cardinality(inserted) >= 4
              /\ \A k \in inserted : Contains(t, k)

\* C4: insert(k) returns true iff k was absent, and an insert of a present key
\* leaves the whole structure unchanged. (Until a fault, the tree's keys are
\* exactly the inserted ones, so k was present iff inserted does not grow.)
C4_Claim == [][ /\ (lastRet' <=> inserted' # inserted)
                /\ (inserted' = inserted => t' = t) ]_vars

\* C5: rankOf(k) of every present key is the number of smaller present keys.
C5_Claim == ~crashed => \A k \in Nodes(t) : RankOf(t, k) = Val(Less(t, k))

\* C6: select(r) for r in [0, n-1] returns the key with exactly r smaller keys.
C6_Claim == ~crashed =>
  \A r \in 0 .. Cardinality(Nodes(t)) - 1 :
     Select(t, r) = Val(CHOOSE k \in Nodes(t) : Less(t, k) = r)

\* C7: rankOf(select(r)) = r for r in [0, n-1] and select(rankOf(k)) = k for
\* every present key k.
C7_Claim == ~crashed =>
  /\ \A r \in 0 .. Cardinality(Nodes(t)) - 1 :
        /\ Select(t, r).kind = "value"
        /\ RankOf(t, Select(t, r).val) = Val(r)
  /\ \A k \in Nodes(t) :
        /\ RankOf(t, k).kind = "value"
        /\ Select(t, RankOf(t, k).val) = Val(k)

\* C8: rankOf of an absent key ends in "not found" and select of a rank outside
\* [0, n-1] ends in "out of range", never in a nullptr dereference or a value.
C8_Claim == ~crashed =>
  /\ \A k \in QueryKeys \ Nodes(t) : RankOf(t, k).kind = "notfound"
  /\ \A r \in QueryRanks \ (0 .. Cardinality(Nodes(t)) - 1) :
        Select(t, r).kind = "outofrange"

\* C9: inserting distinct keys never calls rotateWithParent on the root and
\* never reads the size of an absent child during a rotation.
C9_Claim == ~rotRoot /\ ~nullRead

\* C10: rotateWithParent(N) on a non-root node of a consistent BST keeps the
\* in-order sequence and node set, lifts N above its former parent, re-points
\* the grandparent (or root) to N, and keeps sizes and parent links exact.
C10_Claim ==
  rotated =>
    LET n == lastKey
        p0 == pre.parent[n]
        gp0 == pre.parent[p0]
    IN /\ ~crashed
       /\ InOrder(t, t.root) = InOrder(pre, pre.root)
       /\ Nodes(t) = Nodes(pre)
       /\ t.parent[p0] = n
       /\ t.parent[n] = gp0
       /\ (IF gp0 = Nil THEN t.root = n ELSE t.left[gp0] = n \/ t.right[gp0] = n)
       /\ SizeInv(t)
       /\ ParentLinks(t)

====
